---- MODULE Spec2Model ----
(***************************************************************************)
(* Model of the live polling server: the socket.io event handlers over the *)
(* in-memory maps `polls` and `waitingStudents` and the `activePollId`     *)
(* pointer.                                                                *)
(*                                                                         *)
(* Every socket event handler and every timer callback runs to completion  *)
(* on the single Node.js event loop, so each is one atomic action.  A      *)
(* handler is an operator On...(st, ...) from the state before the event   *)
(* to the state after it plus `out`, the messages it emitted in order; the *)
(* action of the same name installs that result.                           *)
(*                                                                         *)
(* Identifiers produced by uuidv4() are fresh integers: the i-th poll      *)
(* created has id i, the i-th question asked has id i, and the j-th option *)
(* of question q has id <<q, j>>.  Socket ids are fresh integers too and   *)
(* are never reused.  A message is addressed to a socket or to a room; who *)
(* is joined to a room is the transport's business and is not represented, *)
(* nor are free text (question and option text, names, chat) and           *)
(* wall-clock stamps.                                                      *)
(***************************************************************************)
EXTENDS Integers, Sequences, FiniteSets, TLC

\* ---- bounds of the model ----
MaxSockets == 3
MaxPolls == 2
MaxQuestions == 2

\* ---- program constants ----
DefaultOptionCount == 4
DefaultDuration == 60
MaxDuration == 300

Null == 0

Sockets == 1..MaxSockets
\* the clients: the first connection opens the teacher view, the others the
\* student view
TeacherSockets == {1}
StudentSockets == Sockets \ TeacherSockets
\* pollId values a client may send: absent (Null) or a short id
PollIdInputs == 0..MaxPolls
\* options arrays a client may send, by length (0 = absent or empty)
OptionInputs == {2}
\* durationSec values a client may send
DurationInputs == {400}
\* the student view sends student:submit without a pollId (StudentView.jsx:88)
SubmitPollIdInputs == {Null}
QuestionIdInputs == 0..MaxQuestions
OptionIdInputs == (1..MaxQuestions) \X (1..3)

VARIABLES
    polls,            \* sequence of poll records, in Map insertion order; polls[i].id = i
    waitingStudents,  \* sequence of socket ids, in Map insertion order
    activePollId,     \* Null or a poll id
    sockets,          \* io.sockets.sockets: the set of live socket ids
    nextSocket,       \* number of sockets that ever connected
    timers,           \* armed setTimeout handles: [ref |-> handle, poll |-> poll id]
    nextQuestion,     \* number of questions ever created
    finishedSent      \* finishedSent[q]: questionFinished broadcasts emitted for question q

vars == <<polls, waitingStudents, activePollId, sockets, nextSocket,
          timers, nextQuestion, finishedSent>>

NoQuestion == [id |-> Null]

\* the state a handler works on; out collects what it emits
St == [polls |-> polls,
       waitingStudents |-> waitingStudents,
       activePollId |-> activePollId,
       sockets |-> sockets,
       timers |-> timers,
       nextQuestion |-> nextQuestion,
       finishedSent |-> finishedSent,
       out |-> <<>>]

\* polls.get(pollId) is defined
HasPoll(st, pollId) == pollId \in 1..Len(st.polls)

\* ---- messages ----
ToSocket(type, s, body) == [type |-> type, to |-> "socket", id |-> s, body |-> body]

ToRoom(type, p, body) == [type |-> type, to |-> "room", id |-> p, body |-> body]

\* ---- lines 27-37 ----
createPoll(ps) ==
    Append(ps, [id |-> Len(ps) + 1,
                teacherSocketId |-> Null,
                students |-> {},
                currentQuestion |-> NoQuestion,
                pastQuestions |-> <<>>])

\* ---- lines 47-52 ----
canAskNewQuestion(poll) ==
    IF poll.currentQuestion = NoQuestion THEN TRUE
    ELSE LET everyoneAnswered ==
                 /\ poll.currentQuestion.totalAnswers >= Cardinality(poll.students)
                 /\ Cardinality(poll.students) > 0
             finished == poll.currentQuestion.status # "active"
         IN  everyoneAnswered \/ finished

\* the `result` object of lines 58-64
QuestionResult(q) ==
    [questionId |-> q.id,
     options |-> q.options,
     totalAnswers |-> q.totalAnswers,
     durationSec |-> q.durationSec]

\* endQuestion that forgets line 67: the finished question stays current
endQuestion_keepsCurrent(st, p, reason) ==
    LET poll == st.polls[p]
        q == [poll.currentQuestion EXCEPT !.status = "finished"]
    IN  IF poll.currentQuestion = NoQuestion THEN st
        ELSE LET result == QuestionResult(q)
                 entry == [questionId |-> result.questionId,
                           options |-> result.options,
                           totalAnswers |-> result.totalAnswers,
                           durationSec |-> result.durationSec,
                           reason |-> reason]
             IN  [st EXCEPT
                    !.timers = {t \in st.timers : t.ref # q._timerRef},
                    !.polls[p].pastQuestions = <<entry>> \o poll.pastQuestions,
                    !.polls[p].currentQuestion = q,
                    !.out = Append(st.out, ToRoom("questionFinished", p, result)),
                    !.finishedSent[q.id] = @ + 1]

\* endQuestion that forgets line 57: the clock stays armed
endQuestion_leavesTimer(st, p, reason) ==
    LET poll == st.polls[p]
        q == [poll.currentQuestion EXCEPT !.status = "finished"]
    IN  IF poll.currentQuestion = NoQuestion THEN st
        ELSE LET result == QuestionResult(q)
                 entry == [questionId |-> result.questionId,
                           options |-> result.options,
                           totalAnswers |-> result.totalAnswers,
                           durationSec |-> result.durationSec,
                           reason |-> reason]
             IN  [st EXCEPT
                    !.polls[p].pastQuestions = <<entry>> \o poll.pastQuestions,
                    !.polls[p].currentQuestion = NoQuestion,
                    !.out = Append(st.out, ToRoom("questionFinished", p, result)),
                    !.finishedSent[q.id] = @ + 1]

\* endQuestion that pushes the result at the end of pastQuestions (line 65)
endQuestion_appends(st, p, reason) ==
    LET poll == st.polls[p]
        q == [poll.currentQuestion EXCEPT !.status = "finished"]
    IN  IF poll.currentQuestion = NoQuestion THEN st
        ELSE LET result == QuestionResult(q)
                 entry == [questionId |-> result.questionId,
                           options |-> result.options,
                           totalAnswers |-> result.totalAnswers,
                           durationSec |-> result.durationSec,
                           reason |-> reason]
             IN  [st EXCEPT
                    !.timers = {t \in st.timers : t.ref # q._timerRef},
                    !.polls[p].pastQuestions = Append(poll.pastQuestions, entry),
                    !.polls[p].currentQuestion = NoQuestion,
                    !.out = Append(st.out, ToRoom("questionFinished", p, result)),
                    !.finishedSent[q.id] = @ + 1]

\* ---- lines 54-68 ----
endQuestion(st, p, reason) ==
    LET poll == st.polls[p]
        q == [poll.currentQuestion EXCEPT !.status = "finished"]
    IN  IF poll.currentQuestion = NoQuestion THEN st
        ELSE LET result == QuestionResult(q)
                 entry == [questionId |-> result.questionId,
                           options |-> result.options,
                           totalAnswers |-> result.totalAnswers,
                           durationSec |-> result.durationSec,
                           reason |-> reason]
             IN  [st EXCEPT
                    !.timers = {t \in st.timers : t.ref # q._timerRef},
                    !.polls[p].pastQuestions = <<entry>> \o poll.pastQuestions,
                    !.polls[p].currentQuestion = NoQuestion,
                    !.out = Append(st.out, ToRoom("questionFinished", p, result)),
                    !.finishedSent[q.id] = @ + 1]

\* ---- lines 70-77 ----
RECURSIVE LatestFrom(_, _, _)
LatestFrom(ps, i, latest) ==
    IF i > Len(ps) THEN latest
    ELSE LatestFrom(ps, i + 1, IF ps[i].teacherSocketId # Null THEN i ELSE latest)

\* getLatestActivePoll that stops at the first poll with a teacher
getLatestActivePoll_first(ps) ==
    IF \E i \in 1..Len(ps) : ps[i].teacherSocketId # Null
    THEN CHOOSE i \in 1..Len(ps) :
            /\ ps[i].teacherSocketId # Null
            /\ \A j \in 1..(i - 1) : ps[j].teacherSocketId = Null
    ELSE Null

\* ---- lines 70-77 ----
getLatestActivePoll(ps) == LatestFrom(ps, 1, Null)

\* ---- lines 79-84: first poll, in insertion order, whose roster has the socket ----
findPollByStudentSocket(ps, socketId) ==
    IF \E i \in 1..Len(ps) : socketId \in ps[i].students
    THEN CHOOSE i \in 1..Len(ps) :
            /\ socketId \in ps[i].students
            /\ \A j \in 1..(i - 1) : socketId \notin ps[j].students
    ELSE Null

\* the currentQuestion object sent in teacher:ready / student:ready
\* (lines 99-107, 125-133, 162-170)
QuestionSnapshot(q) ==
    IF q = NoQuestion THEN NoQuestion
    ELSE [id |-> q.id,
          options |-> q.options,
          durationSec |-> q.durationSec,
          totalAnswers |-> q.totalAnswers,
          status |-> q.status]

ReadyBody(poll) ==
    [currentQuestion |-> QuestionSnapshot(poll.currentQuestion),
     pastQuestions |-> poll.pastQuestions]

Without(seq, x) == SelectSeq(seq, LAMBDA y : y # x)

\* the loop of lines 112-138 without the delete of line 136
RECURSIVE AttachWaiting_keepsEntries(_, _, _)
AttachWaiting_keepsEntries(st, todo, p) ==
    IF todo = <<>> THEN st
    ELSE LET sid == Head(todo)
             dropped == [st EXCEPT !.waitingStudents = Without(@, sid)]
         IN  IF sid \notin st.sockets
             THEN AttachWaiting_keepsEntries(dropped, Tail(todo), p)
             ELSE LET st2 == [st EXCEPT !.polls[p].students = @ \cup {sid}]
                  IN  AttachWaiting_keepsEntries(
                        [st2 EXCEPT !.out = @ \o
                            <<ToRoom("roster:update", p, st2.polls[p].students),
                              ToSocket("student:ready", sid, ReadyBody(st2.polls[p]))>>],
                        Tail(todo), p)

\* ---- lines 112-138: the loop over waitingStudents.entries() ----
RECURSIVE AttachWaiting(_, _, _)
AttachWaiting(st, todo, p) ==
    IF todo = <<>> THEN st
    ELSE LET sid == Head(todo)
             dropped == [st EXCEPT !.waitingStudents = Without(@, sid)]
         IN  IF sid \notin st.sockets
             THEN AttachWaiting(dropped, Tail(todo), p)
             ELSE LET st2 == [dropped EXCEPT !.polls[p].students = @ \cup {sid}]
                  IN  AttachWaiting(
                        [st2 EXCEPT !.out = @ \o
                            <<ToRoom("roster:update", p, st2.polls[p].students),
                              ToSocket("student:ready", sid, ReadyBody(st2.polls[p]))>>],
                        Tail(todo), p)

\* teacher:init that leaves the binding of a poll that already has a teacher
OnTeacherInit_keepsBound(st, s, pollId) ==
    LET found == pollId # Null /\ HasPoll(st, pollId)
        ps1 == IF found THEN st.polls ELSE createPoll(st.polls)
        p == IF found THEN pollId ELSE Len(ps1)
        ps2 == IF ps1[p].teacherSocketId = Null
               THEN [ps1 EXCEPT ![p].teacherSocketId = s] ELSE ps1
        ready == ToSocket("teacher:ready", s,
                    [pollId |-> p,
                     students |-> ps2[p].students,
                     currentQuestion |-> QuestionSnapshot(ps2[p].currentQuestion),
                     pastQuestions |-> ps2[p].pastQuestions])
    IN  AttachWaiting([st EXCEPT !.polls = ps2,
                                 !.activePollId = p,
                                 !.out = Append(@, ready)],
                      st.waitingStudents, p)

\* teacher:init without lines 111-138: waiting students are left waiting
OnTeacherInit_noDrain(st, s, pollId) ==
    LET found == pollId # Null /\ HasPoll(st, pollId)
        ps1 == IF found THEN st.polls ELSE createPoll(st.polls)
        p == IF found THEN pollId ELSE Len(ps1)
        ps2 == [ps1 EXCEPT ![p].teacherSocketId = s]
        ready == ToSocket("teacher:ready", s,
                    [pollId |-> p,
                     students |-> ps2[p].students,
                     currentQuestion |-> QuestionSnapshot(ps2[p].currentQuestion),
                     pastQuestions |-> ps2[p].pastQuestions])
    IN  [st EXCEPT !.polls = ps2,
                   !.activePollId = p,
                   !.out = Append(@, ready)]

\* ---- socket.on('teacher:init'), lines 88-139 ----
OnTeacherInit(st, s, pollId) ==
    LET found == pollId # Null /\ HasPoll(st, pollId)
        ps1 == IF found THEN st.polls ELSE createPoll(st.polls)
        p == IF found THEN pollId ELSE Len(ps1)
        ps2 == [ps1 EXCEPT ![p].teacherSocketId = s]
        ready == ToSocket("teacher:ready", s,
                    [pollId |-> p,
                     students |-> ps2[p].students,
                     currentQuestion |-> QuestionSnapshot(ps2[p].currentQuestion),
                     pastQuestions |-> ps2[p].pastQuestions])
    IN  AttachWaiting([st EXCEPT !.polls = ps2,
                                 !.activePollId = p,
                                 !.out = Append(@, ready)],
                      st.waitingStudents, p)

\* ---- lines 142-149 ----
ResolvePoll(st, pollId) ==
    IF pollId # Null /\ HasPoll(st, pollId) THEN pollId
    ELSE IF st.activePollId # Null /\ HasPoll(st, st.activePollId) THEN st.activePollId
    ELSE getLatestActivePoll(st.polls)

\* ---- socket.on('student:init'), lines 141-173 ----
OnStudentInit(st, s, pollId) ==
    LET p == ResolvePoll(st, pollId)
    IN  IF p = Null
        THEN [st EXCEPT
                !.waitingStudents =
                    IF \E i \in 1..Len(@) : @[i] = s THEN @ ELSE Append(@, s),
                !.out = Append(@, ToSocket("student:waiting", s, Null))]
        ELSE LET st2 == [st EXCEPT !.polls[p].students = @ \cup {s}]
             IN  [st2 EXCEPT !.out = @ \o
                    <<ToRoom("roster:update", p, st2.polls[p].students),
                      ToSocket("student:ready", s, ReadyBody(st2.polls[p]))>>]

\* options that start with one vote each
normalizedOptions_fromOne(n) ==
    [i \in 1..(IF n > 0 THEN n ELSE DefaultOptionCount) |-> 1]

\* ---- lines 182-186 ----
normalizedOptions(n) ==
    [i \in 1..(IF n > 0 THEN n ELSE DefaultOptionCount) |-> 0]

Min(a, b) == IF a < b THEN a ELSE b

\* ---- line 187 ----
duration(durationSec) ==
    IF durationSec > 0 THEN Min(durationSec, MaxDuration) ELSE DefaultDuration

Error(st, s, text) == [st EXCEPT !.out = Append(@, ToSocket("errorMessage", s, text))]

\* ---- socket.on('teacher:askQuestion'), lines 175-212 ----
OnAskQuestion(st, s, pollId, options, durationSec) ==
    IF ~HasPoll(st, pollId) THEN Error(st, s, "Poll not found")
    ELSE IF st.polls[pollId].teacherSocketId # s THEN Error(st, s, "Not authorized")
    ELSE IF ~canAskNewQuestion(st.polls[pollId])
    THEN Error(st, s, "Wait until previous question finishes")
    ELSE LET questionId == st.nextQuestion + 1
             question == [id |-> questionId,
                          options |-> normalizedOptions(options),
                          durationSec |-> duration(durationSec),
                          totalAnswers |-> 0,
                          status |-> "active",
                          answeredBy |-> {},
                          _timerRef |-> questionId]
         IN  [st EXCEPT
                !.nextQuestion = questionId,
                !.polls[pollId].currentQuestion = question,
                !.timers = @ \cup {[ref |-> questionId, poll |-> pollId]},
                !.out = Append(@, ToRoom("questionAsked", pollId,
                                     [id |-> question.id,
                                      options |-> Len(question.options),
                                      durationSec |-> question.durationSec]))]

\* ---- line 215 (and 268) ----
PollOf(st, s, pollId) ==
    IF pollId # Null
    THEN (IF HasPoll(st, pollId) THEN pollId ELSE Null)
    ELSE findPollByStudentSocket(st.polls, s)

\* line 219 without the once-per-student check
alreadyAnswered_never(q, s) == FALSE

\* ---- line 219 ----
alreadyAnswered(q, s) == s \in q.answeredBy

\* student:submit that records the answerer before it looks the option up
OnSubmit_marksBeforeLookup(st, s, pollId, questionId, optionId) ==
    LET p == PollOf(st, s, pollId)
    IN  IF p = Null THEN st
        ELSE IF st.polls[p].currentQuestion = NoQuestion THEN st
        ELSE LET q == st.polls[p].currentQuestion
             IN  IF q.id # questionId \/ q.status # "active" THEN st
                 ELSE IF alreadyAnswered(q, s) THEN st
                 ELSE IF ~(optionId[1] = q.id /\ optionId[2] \in 1..Len(q.options))
                 THEN [st EXCEPT !.polls[p].currentQuestion.answeredBy = @ \cup {s}]
                 ELSE LET q2 == [q EXCEPT !.options[optionId[2]] = @ + 1,
                                          !.totalAnswers = @ + 1,
                                          !.answeredBy = @ \cup {s}]
                          size == Cardinality(st.polls[p].students)
                          st2 == [st EXCEPT
                                    !.polls[p].currentQuestion = q2,
                                    !.out = Append(@, ToRoom("results:update", p,
                                                [questionId |-> q2.id,
                                                 options |-> q2.options,
                                                 totalAnswers |-> q2.totalAnswers,
                                                 studentsTotal |-> size]))]
                      IN  IF q2.totalAnswers >= size /\ size > 0
                          THEN endQuestion(st2, p, "all_answered")
                          ELSE st2

\* ---- socket.on('student:submit'), lines 214-238 ----
OnSubmit(st, s, pollId, questionId, optionId) ==
    LET p == PollOf(st, s, pollId)
    IN  IF p = Null THEN st
        ELSE IF st.polls[p].currentQuestion = NoQuestion THEN st
        ELSE LET q == st.polls[p].currentQuestion
             IN  IF q.id # questionId \/ q.status # "active" THEN st
                 ELSE IF alreadyAnswered(q, s) THEN st
                 ELSE IF ~(optionId[1] = q.id /\ optionId[2] \in 1..Len(q.options)) THEN st
                 ELSE LET q2 == [q EXCEPT !.options[optionId[2]] = @ + 1,
                                          !.totalAnswers = @ + 1,
                                          !.answeredBy = @ \cup {s}]
                          size == Cardinality(st.polls[p].students)
                          st2 == [st EXCEPT
                                    !.polls[p].currentQuestion = q2,
                                    !.out = Append(@, ToRoom("results:update", p,
                                                [questionId |-> q2.id,
                                                 options |-> q2.options,
                                                 totalAnswers |-> q2.totalAnswers,
                                                 studentsTotal |-> size]))]
                      IN  IF q2.totalAnswers >= size /\ size > 0
                          THEN endQuestion(st2, p, "all_answered")
                          ELSE st2

\* teacher:endQuestion without the check of line 243
OnEndQuestion_anyone(st, s, pollId) ==
    IF ~HasPoll(st, pollId) THEN st
    ELSE endQuestion(st, pollId, "teacher_end")

\* teacher:endQuestion that passes no reason, so endQuestion's default applies
OnEndQuestion_defaultReason(st, s, pollId) ==
    IF ~HasPoll(st, pollId) THEN st
    ELSE IF st.polls[pollId].teacherSocketId # s THEN st
    ELSE endQuestion(st, pollId, "ended")

\* ---- socket.on('teacher:endQuestion'), lines 240-245 ----
OnEndQuestion(st, s, pollId) ==
    IF ~HasPoll(st, pollId) THEN st
    ELSE IF st.polls[pollId].teacherSocketId # s THEN st
    ELSE endQuestion(st, pollId, "teacher_end")

\* teacher:removeStudent that announces the expulsion to the whole room
OnRemoveStudent_kickBroadcast(st, s, pollId, studentId) ==
    IF ~HasPoll(st, pollId) THEN st
    ELSE IF st.polls[pollId].teacherSocketId # s THEN st
    ELSE IF studentId \notin st.polls[pollId].students THEN st
    ELSE LET st2 == [st EXCEPT !.polls[pollId].students = @ \ {studentId}]
         IN  [st2 EXCEPT !.out = @ \o
                (IF studentId \in st.sockets
                 THEN <<ToRoom("student:kicked", pollId, Null)>> ELSE <<>>)
                \o <<ToRoom("roster:update", pollId, st2.polls[pollId].students)>>]

\* ---- socket.on('teacher:removeStudent'), lines 247-265 ----
OnRemoveStudent(st, s, pollId, studentId) ==
    IF ~HasPoll(st, pollId) THEN st
    ELSE IF st.polls[pollId].teacherSocketId # s THEN st
    ELSE IF studentId \notin st.polls[pollId].students THEN st
    ELSE LET st2 == [st EXCEPT !.polls[pollId].students = @ \ {studentId}]
         IN  [st2 EXCEPT !.out = @ \o
                (IF studentId \in st.sockets
                 THEN <<ToSocket("student:kicked", studentId, Null)>> ELSE <<>>)
                \o <<ToRoom("roster:update", pollId, st2.polls[pollId].students)>>]

\* the loop of lines 282-293 without lines 289-291: the pointer is kept
RECURSIVE DetachFrom_keepsActive(_, _, _)
DetachFrom_keepsActive(st, i, s) ==
    IF i > Len(st.polls) THEN st
    ELSE LET poll == st.polls[i]
             st2 == IF s \in poll.students
                    THEN [st EXCEPT
                            !.polls[i].students = @ \ {s},
                            !.out = Append(@, ToRoom("roster:update", i,
                                                  poll.students \ {s}))]
                    ELSE st
             st3 == IF poll.teacherSocketId = s
                    THEN [st2 EXCEPT !.polls[i].teacherSocketId = Null]
                    ELSE st2
         IN  DetachFrom_keepsActive(st3, i + 1, s)

\* the loop of lines 282-293 clearing activePollId for whichever poll the
\* leaving teacher was bound to
RECURSIVE DetachFrom_clearsActive(_, _, _)
DetachFrom_clearsActive(st, i, s) ==
    IF i > Len(st.polls) THEN st
    ELSE LET poll == st.polls[i]
             st2 == IF s \in poll.students
                    THEN [st EXCEPT
                            !.polls[i].students = @ \ {s},
                            !.out = Append(@, ToRoom("roster:update", i,
                                                  poll.students \ {s}))]
                    ELSE st
             st3 == IF poll.teacherSocketId = s
                    THEN [st2 EXCEPT
                            !.polls[i].teacherSocketId = Null,
                            !.activePollId = Null]
                    ELSE st2
         IN  DetachFrom_clearsActive(st3, i + 1, s)

\* ---- lines 282-293: the loop over polls.values() ----
RECURSIVE DetachFrom(_, _, _)
DetachFrom(st, i, s) ==
    IF i > Len(st.polls) THEN st
    ELSE LET poll == st.polls[i]
             st2 == IF s \in poll.students
                    THEN [st EXCEPT
                            !.polls[i].students = @ \ {s},
                            !.out = Append(@, ToRoom("roster:update", i,
                                                  poll.students \ {s}))]
                    ELSE st
             st3 == IF poll.teacherSocketId = s
                    THEN [st2 EXCEPT
                            !.polls[i].teacherSocketId = Null,
                            !.activePollId = IF @ = i THEN Null ELSE @]
                    ELSE st2
         IN  DetachFrom(st3, i + 1, s)

\* disconnect that also withdraws the leaver's answer from the open question
OnDisconnect_withdrawsAnswer(st, s) ==
    LET st2 == DetachFrom([st EXCEPT !.sockets = @ \ {s}], 1, s)
        forget(poll) ==
            IF poll.currentQuestion # NoQuestion /\ s \in poll.currentQuestion.answeredBy
            THEN [poll EXCEPT !.currentQuestion.answeredBy = @ \ {s},
                              !.currentQuestion.totalAnswers = @ - 1]
            ELSE poll
    IN  [st2 EXCEPT !.waitingStudents = Without(@, s),
                    !.polls = [i \in 1..Len(@) |-> forget(@[i])]]

\* ---- socket.on('disconnect'), lines 280-297 ----
OnDisconnect(st, s) ==
    LET st2 == DetachFrom([st EXCEPT !.sockets = @ \ {s}], 1, s)
    IN  [st2 EXCEPT !.waitingStudents = Without(@, s)]

\* ---- the callback of lines 201-203: t is the handle that fired ----
OnTimeout(st, t) ==
    endQuestion([st EXCEPT !.timers = @ \ {t}], t.poll, "timeout")

Init ==
    /\ polls = <<>>
    /\ waitingStudents = <<>>
    /\ activePollId = Null
    /\ sockets = {}
    /\ nextSocket = 0
    /\ timers = {}
    /\ nextQuestion = 0
    /\ finishedSent = [q \in 1..MaxQuestions |-> 0]

\* the state after a handler returned r
Becomes(r) ==
    /\ polls' = r.polls
    /\ waitingStudents' = r.waitingStudents
    /\ activePollId' = r.activePollId
    /\ sockets' = r.sockets
    /\ timers' = r.timers
    /\ nextQuestion' = r.nextQuestion
    /\ finishedSent' = r.finishedSent
    /\ UNCHANGED nextSocket

\* a client opens a connection (line 86)
Connect ==
    /\ nextSocket < MaxSockets
    /\ nextSocket' = nextSocket + 1
    /\ sockets' = sockets \cup {nextSocket + 1}
    /\ UNCHANGED <<polls, waitingStudents, activePollId, timers, nextQuestion,
                   finishedSent>>

\* POST /api/polls (lines 41-44)
CreatePollRest ==
    /\ Len(polls) < MaxPolls
    /\ polls' = createPoll(polls)
    /\ UNCHANGED <<waitingStudents, activePollId, sockets, nextSocket, timers,
                   nextQuestion, finishedSent>>

TeacherInit(s, pollId) ==
    /\ s \in sockets
    /\ Len(OnTeacherInit(St, s, pollId).polls) <= MaxPolls
    /\ Becomes(OnTeacherInit(St, s, pollId))

StudentInit(s, pollId) ==
    /\ s \in sockets
    /\ Becomes(OnStudentInit(St, s, pollId))

AskQuestion(s, pollId, options, durationSec) ==
    /\ s \in sockets
    /\ OnAskQuestion(St, s, pollId, options, durationSec).nextQuestion <= MaxQuestions
    /\ Becomes(OnAskQuestion(St, s, pollId, options, durationSec))

Submit(s, pollId, questionId, optionId) ==
    /\ s \in sockets
    /\ Becomes(OnSubmit(St, s, pollId, questionId, optionId))

EndQuestion(s, pollId) ==
    /\ s \in sockets
    /\ Becomes(OnEndQuestion(St, s, pollId))

RemoveStudent(s, pollId, studentId) ==
    /\ s \in sockets
    /\ Becomes(OnRemoveStudent(St, s, pollId, studentId))

Disconnect(s) ==
    /\ s \in sockets
    /\ Becomes(OnDisconnect(St, s))

TimerFire(t) ==
    /\ t \in timers
    /\ Becomes(OnTimeout(St, t))

Next ==
    \/ Connect
    \/ CreatePollRest
    \/ \E s \in TeacherSockets, pollId \in PollIdInputs : TeacherInit(s, pollId)
    \/ \E s \in StudentSockets, pollId \in PollIdInputs : StudentInit(s, pollId)
    \/ \E s \in TeacherSockets, pollId \in PollIdInputs, options \in OptionInputs,
          durationSec \in DurationInputs : AskQuestion(s, pollId, options, durationSec)
    \/ \E s \in StudentSockets, pollId \in SubmitPollIdInputs, questionId \in QuestionIdInputs,
          optionId \in OptionIdInputs : Submit(s, pollId, questionId, optionId)
    \/ \E s \in TeacherSockets, pollId \in PollIdInputs : EndQuestion(s, pollId)
    \/ \E s \in TeacherSockets, pollId \in PollIdInputs, studentId \in Sockets :
          RemoveStudent(s, pollId, studentId)
    \/ \E s \in Sockets : Disconnect(s)
    \/ \E t \in timers : TimerFire(t)

Spec == Init /\ [][Next]_vars

\* ---- the session directory on its own ----
\* No question is asked; any socket may attach as teacher or as student, to
\* any poll id, so that several polls have teachers that come and go.
MaxDirPolls == 3

DirPollIdInputs == 0..MaxDirPolls

\* POST /api/polls (lines 41-44)
DirCreatePollRest ==
    /\ Len(polls) < MaxDirPolls
    /\ polls' = createPoll(polls)
    /\ UNCHANGED <<waitingStudents, activePollId, sockets, nextSocket, timers,
                   nextQuestion, finishedSent>>

DirTeacherInit(s, pollId) ==
    /\ s \in sockets
    /\ Len(OnTeacherInit(St, s, pollId).polls) <= MaxDirPolls
    /\ Becomes(OnTeacherInit(St, s, pollId))

NextDir ==
    \/ Connect
    \/ DirCreatePollRest
    \/ \E s \in Sockets, pollId \in DirPollIdInputs : DirTeacherInit(s, pollId)
    \/ \E s \in Sockets, pollId \in DirPollIdInputs : StudentInit(s, pollId)
    \/ \E s \in Sockets, pollId \in DirPollIdInputs, studentId \in Sockets :
          RemoveStudent(s, pollId, studentId)
    \/ \E s \in Sockets : Disconnect(s)

SpecDir == Init /\ [][NextDir]_vars

\* ---- two teacher clients ----
\* The first two connections open the teacher view, so that a poll can be
\* taken over by a second teacher while the first is still connected; the
\* third opens the student view.
CoTeacherSockets == {1, 2}

CoStudentSockets == Sockets \ CoTeacherSockets

NextCo ==
    \/ Connect
    \/ CreatePollRest
    \/ \E s \in CoTeacherSockets, pollId \in PollIdInputs : TeacherInit(s, pollId)
    \/ \E s \in CoStudentSockets, pollId \in PollIdInputs : StudentInit(s, pollId)
    \/ \E s \in CoTeacherSockets, pollId \in PollIdInputs, options \in OptionInputs,
          durationSec \in DurationInputs : AskQuestion(s, pollId, options, durationSec)
    \/ \E s \in CoStudentSockets, pollId \in SubmitPollIdInputs,
          questionId \in QuestionIdInputs, optionId \in OptionIdInputs :
          Submit(s, pollId, questionId, optionId)
    \/ \E s \in CoTeacherSockets, pollId \in PollIdInputs : EndQuestion(s, pollId)
    \/ \E s \in CoTeacherSockets, pollId \in PollIdInputs, studentId \in Sockets :
          RemoveStudent(s, pollId, studentId)
    \/ \E s \in Sockets : Disconnect(s)
    \/ \E t \in timers : TimerFire(t)

SpecCo == Init /\ [][NextCo]_vars

\* ---- one class: a teacher, one poll, one question, three students ----
\* A fourth connection lets a student leave after answering while two others
\* stay on the roster.
MaxClassSockets == 4

ClassSockets == 1..MaxClassSockets

ClassStudentSockets == ClassSockets \ TeacherSockets

\* a client opens a connection (line 86)
ClassConnect ==
    /\ nextSocket < MaxClassSockets
    /\ nextSocket' = nextSocket + 1
    /\ sockets' = sockets \cup {nextSocket + 1}
    /\ UNCHANGED <<polls, waitingStudents, activePollId, timers, nextQuestion,
                   finishedSent>>

\* the teacher view opens without a pollId, once
ClassTeacherInit(s) ==
    /\ s \in sockets
    /\ polls = <<>>
    /\ Becomes(OnTeacherInit(St, s, Null))

\* the one question of the class
ClassAskQuestion(s, pollId, options, durationSec) ==
    /\ s \in sockets
    /\ nextQuestion = 0
    /\ Becomes(OnAskQuestion(St, s, pollId, options, durationSec))

NextClass ==
    \/ ClassConnect
    \/ \E s \in TeacherSockets : ClassTeacherInit(s)
    \/ \E s \in ClassStudentSockets : StudentInit(s, Null)
    \/ \E s \in TeacherSockets, pollId \in PollIdInputs, options \in OptionInputs,
          durationSec \in DurationInputs : ClassAskQuestion(s, pollId, options, durationSec)
    \/ \E s \in ClassStudentSockets, pollId \in SubmitPollIdInputs,
          questionId \in QuestionIdInputs, optionId \in OptionIdInputs :
          Submit(s, pollId, questionId, optionId)
    \/ \E s \in ClassSockets : Disconnect(s)
    \/ \E t \in timers : TimerFire(t)

SpecClass == Init /\ [][NextClass]_vars

\* ------------------------------------------------------------------------
\* Properties.  A property of a handler is stated over every reachable state
\* and every input the handler can be given there.
\* ------------------------------------------------------------------------
PollIds == 1..Len(polls)

Cur(p) == polls[p].currentQuestion

IsActive(q) == q # NoQuestion /\ q.status = "active"

\* the pastQuestions entries, over all polls, recorded for question qid
Entries(st, qid) ==
    {pi \in (1..Len(st.polls)) \X (1..MaxQuestions) :
        /\ pi[2] <= Len(st.polls[pi[1]].pastQuestions)
        /\ st.polls[pi[1]].pastQuestions[pi[2]].questionId = qid}

\* r finished question q of poll p for the given reason, in one step from st
FinishedBy(st, r, p, q, reason) ==
    /\ r.polls[p].currentQuestion = NoQuestion
    /\ Len(r.polls[p].pastQuestions) = Len(st.polls[p].pastQuestions) + 1
    /\ Head(r.polls[p].pastQuestions).questionId = q.id
    /\ Head(r.polls[p].pastQuestions).reason = reason
    /\ Tail(r.polls[p].pastQuestions) = st.polls[p].pastQuestions

\* C1: a poll's currentQuestion, when present, has status 'active'; a question
\* that has been finished (has a pastQuestions entry) is not any poll's
\* currentQuestion.
C1_CurrentQuestionIsActive ==
    \A p \in PollIds :
        Cur(p) # NoQuestion =>
            /\ Cur(p).status = "active"
            /\ Entries(St, Cur(p).id) = {}

\* a question is open in a poll that has already finished another one
C1_Witness ==
    \E p \in PollIds : Cur(p) # NoQuestion /\ Len(polls[p].pastQuestions) > 0

\* C2: totalAnswers of the open question is the number of distinct sockets in
\* answeredBy, and a student:submit from a socket already in answeredBy
\* changes nothing (no count, no total, no finish).
C2_OneAnswerPerConnection ==
    /\ \A p \in PollIds :
          Cur(p) # NoQuestion =>
              Cur(p).totalAnswers = Cardinality(Cur(p).answeredBy)
    /\ \A s \in sockets, pollId \in PollIdInputs, questionId \in QuestionIdInputs,
          optionId \in OptionIdInputs :
          LET p == PollOf(St, s, pollId)
          IN  (p # Null /\ Cur(p) # NoQuestion /\ s \in Cur(p).answeredBy) =>
                  OnSubmit(St, s, pollId, questionId, optionId) = St

\* a live socket has answered the open question and can try again
C2_Witness ==
    \E p \in PollIds :
        /\ Cur(p) # NoQuestion
        /\ \E s \in sockets : s \in Cur(p).answeredBy /\ s \in polls[p].students

\* C3 (as claimed): teacher:askQuestion by the bound teacher while the poll's
\* question is active only sends that socket an error: polls, timers and the
\* question counter are as before.
C3_ActiveQuestionBlocksAsk ==
    \A s \in sockets, pollId \in PollIdInputs, options \in OptionInputs,
       durationSec \in DurationInputs :
        (/\ HasPoll(St, pollId)
         /\ polls[pollId].teacherSocketId = s
         /\ IsActive(Cur(pollId))) =>
            LET r == OnAskQuestion(St, s, pollId, options, durationSec)
            IN  /\ r.polls = polls
                /\ r.timers = timers
                /\ r.nextQuestion = nextQuestion
                /\ Len(r.out) = 1
                /\ r.out[1].type = "errorMessage"
                /\ r.out[1].to = "socket" /\ r.out[1].id = s

\* C4 (as claimed): a timer callback whose handle is not the one of the
\* poll's current question (the question it was armed for was finished or
\* replaced) changes no poll and emits nothing.
C4_StaleClockIsInert ==
    \A t \in timers :
        (Cur(t.poll) = NoQuestion \/ Cur(t.poll)._timerRef # t.ref) =>
            LET r == OnTimeout(St, t)
            IN  /\ r.polls = polls
                /\ r.finishedSent = finishedSent
                /\ r.out = <<>>

\* C5: a counted student:submit that brings the number of distinct answerers
\* to the roster size N > 0 finishes the question in that same step with
\* reason all_answered and leaves no armed clock for it, so that no timer
\* callback afterwards records anything for it; a question recorded as
\* all_answered has exactly one entry and no armed clock.
C5_AllAnsweredFinishes ==
    /\ \A s \in sockets, pollId \in PollIdInputs, questionId \in QuestionIdInputs,
          optionId \in OptionIdInputs :
          LET p == PollOf(St, s, pollId)
              r == OnSubmit(St, s, pollId, questionId, optionId)
          IN  (p # Null /\ r # St) =>
                LET q == Cur(p)
                    N == Cardinality(polls[p].students)
                IN  (N > 0 /\ Cardinality(q.answeredBy \cup {s}) = N) =>
                        /\ FinishedBy(St, r, p, q, "all_answered")
                        /\ Head(r.polls[p].pastQuestions).totalAnswers = N
                        /\ \A t \in r.timers : t.ref # q._timerRef
                        /\ \A t \in r.timers :
                              Entries(OnTimeout(r, t), q.id) = Entries(r, q.id)
    /\ \A p \in PollIds : \A i \in 1..Len(polls[p].pastQuestions) :
          LET e == polls[p].pastQuestions[i]
          IN  e.reason = "all_answered" =>
                  /\ Cardinality(Entries(St, e.questionId)) = 1
                  /\ \A t \in timers : t.ref # e.questionId

\* two students were on the roster and both answered
C5_Witness ==
    \E p \in PollIds :
        /\ Len(polls[p].pastQuestions) > 0
        /\ Head(polls[p].pastQuestions).reason = "all_answered"
        /\ Head(polls[p].pastQuestions).totalAnswers = 2
        /\ Cardinality(polls[p].students) = 2

\* C6 (as claimed): whenever a timer callback runs while its poll has a
\* current question, that question is the one the timer was armed for, and
\* the callback records it once, as a timeout, with one questionFinished.
C6_OwnClockTimesOut ==
    \A t \in timers :
        Cur(t.poll) # NoQuestion =>
            LET q == Cur(t.poll)
                r == OnTimeout(St, t)
            IN  /\ q._timerRef = t.ref
                /\ FinishedBy(St, r, t.poll, q, "timeout")
                /\ Cardinality(Entries(r, q.id)) = 1
                /\ r.finishedSent[q.id] = 1

\* C7: teacher:endQuestion by the bound teacher while a question is active
\* finishes that question in the same step with reason teacher_end, and in
\* the state it leaves no timer callback and no student:submit adds a second
\* entry or a second questionFinished for that question.
C7_TeacherEndPreempts ==
    \A s \in sockets, pollId \in PollIdInputs :
        (/\ HasPoll(St, pollId)
         /\ polls[pollId].teacherSocketId = s
         /\ IsActive(Cur(pollId))) =>
            LET q == Cur(pollId)
                r == OnEndQuestion(St, s, pollId)
            IN  /\ FinishedBy(St, r, pollId, q, "teacher_end")
                /\ Cardinality(Entries(r, q.id)) = 1
                /\ r.finishedSent[q.id] = 1
                /\ \A t \in r.timers :
                      LET r2 == OnTimeout(r, t)
                      IN  /\ Entries(r2, q.id) = Entries(r, q.id)
                          /\ r2.finishedSent[q.id] = 1
                /\ \A s2 \in sockets, pollId2 \in PollIdInputs,
                      optionId \in OptionIdInputs :
                      LET r2 == OnSubmit(r, s2, pollId2, q.id, optionId)
                      IN  /\ Entries(r2, q.id) = Entries(r, q.id)
                          /\ r2.finishedSent[q.id] = 1

\* the teacher ended a question that had an answer and is still connected
C7_Witness ==
    \E p \in PollIds :
        /\ Len(polls[p].pastQuestions) > 0
        /\ Head(polls[p].pastQuestions).reason = "teacher_end"
        /\ Head(polls[p].pastQuestions).totalAnswers > 0
        /\ polls[p].teacherSocketId \in sockets

\* C8 (as claimed): every poll has at most one armed timer, and an armed
\* timer is the one of its poll's active current question.
C8_OneClockPerActiveQuestion ==
    /\ \A p \in PollIds : Cardinality({t \in timers : t.poll = p}) <= 1
    /\ \A t \in timers :
          /\ IsActive(Cur(t.poll))
          /\ Cur(t.poll)._timerRef = t.ref

\* C9 (as claimed): while a question is active its totalAnswers does not
\* exceed the size of the poll's roster.
C9_AnswersWithinRoster ==
    \A p \in PollIds :
        IsActive(Cur(p)) => Cur(p).totalAnswers <= Cardinality(polls[p].students)

\* C10: the disconnect of a roster student who has answered the active
\* question leaves that question as it was (counts, totalAnswers, answeredBy)
\* and removes exactly that socket from the roster.
C10_DisconnectKeepsAnswer ==
    \A s \in sockets, p \in PollIds :
        (/\ IsActive(Cur(p))
         /\ s \in polls[p].students
         /\ s \in Cur(p).answeredBy) =>
            LET r == OnDisconnect(St, s)
            IN  /\ r.polls[p].currentQuestion = Cur(p)
                /\ r.polls[p].students = polls[p].students \ {s}

\* an answerer of the open question has disconnected
C10_Witness ==
    \E p \in PollIds :
        /\ IsActive(Cur(p))
        /\ \E s \in Cur(p).answeredBy : s \notin sockets
\* what a handler left of the state, apart from the messages it emitted
Quiet(r) == [r EXCEPT !.out = <<>>]

\* C11: teacher:removeStudent by the bound teacher for a roster student while
\* a question is active leaves the question as it was (option counts,
\* totalAnswers), sends student:kicked to the removed socket and to nobody
\* else, and then broadcasts roster:update with the roster without that
\* student.
C11_KickKeepsAnswers ==
    \A s \in sockets, pollId \in PollIdInputs, studentId \in Sockets :
        (/\ HasPoll(St, pollId)
         /\ polls[pollId].teacherSocketId = s
         /\ studentId \in polls[pollId].students
         /\ IsActive(Cur(pollId))) =>
            LET r == OnRemoveStudent(St, s, pollId, studentId)
            IN  /\ r.polls[pollId].currentQuestion = Cur(pollId)
                /\ r.polls[pollId].students = polls[pollId].students \ {studentId}
                /\ r.out = <<ToSocket("student:kicked", studentId, Null),
                             ToRoom("roster:update", pollId,
                                    polls[pollId].students \ {studentId})>>

\* a student who answered the open question was removed and is still connected
C11_Witness ==
    \E p \in PollIds :
        /\ IsActive(Cur(p))
        /\ \E s \in Cur(p).answeredBy : s \in sockets /\ s \notin polls[p].students

\* C12: teacher:askQuestion, teacher:endQuestion and teacher:removeStudent
\* from a socket that is not the poll's teacherSocketId change nothing, and
\* whatever they emit is addressed to the sending socket.
C12_NonTeacherChangesNothing ==
    \A s \in sockets, pollId \in PollIdInputs :
        (HasPoll(St, pollId) /\ polls[pollId].teacherSocketId # s) =>
            /\ \A options \in OptionInputs, durationSec \in DurationInputs :
                  LET r == OnAskQuestion(St, s, pollId, options, durationSec)
                  IN  /\ Quiet(r) = St
                      /\ \A i \in 1..Len(r.out) :
                            /\ r.out[i].type = "errorMessage"
                            /\ r.out[i].to = "socket" /\ r.out[i].id = s
            /\ OnEndQuestion(St, s, pollId) = St
            /\ \A studentId \in Sockets :
                  OnRemoveStudent(St, s, pollId, studentId) = St

\* a student is connected while the teacher's poll has an open question and a roster
C12_Witness ==
    \E p \in PollIds, s \in sockets :
        /\ polls[p].teacherSocketId \notin {Null, s}
        /\ IsActive(Cur(p))
        /\ polls[p].students # {}

\* the student:submit got through: s is the newest answerer of question q of poll p
Counted(st, r, p, s) ==
    LET q == st.polls[p].currentQuestion
    IN  IF r.polls[p].currentQuestion # NoQuestion
        THEN /\ r.polls[p].currentQuestion.id = q.id
             /\ r.polls[p].currentQuestion.answeredBy = q.answeredBy \cup {s}
             /\ r.polls[p].currentQuestion.totalAnswers = q.totalAnswers + 1
        ELSE /\ Len(r.polls[p].pastQuestions) = Len(st.polls[p].pastQuestions) + 1
             /\ Head(r.polls[p].pastQuestions).questionId = q.id
             /\ Head(r.polls[p].pastQuestions).totalAnswers = q.totalAnswers + 1

\* C13: a student:submit that names another question id than the current
\* one, or an option id that is not an option of the current question,
\* changes nothing and emits nothing; the sender, if it has not answered,
\* can still get one valid answer counted.
C13_StaleSubmitIsNoOp ==
    \A s \in sockets, pollId \in PollIdInputs, questionId \in QuestionIdInputs,
       optionId \in OptionIdInputs :
        LET p == PollOf(St, s, pollId)
        IN  (p # Null /\ IsActive(Cur(p))) =>
                LET q == Cur(p)
                    known == optionId[1] = q.id /\ optionId[2] \in 1..Len(q.options)
                    r == OnSubmit(St, s, pollId, questionId, optionId)
                IN  (questionId # q.id \/ ~known) =>
                        /\ r = St
                        /\ s \notin q.answeredBy =>
                              Counted(r, OnSubmit(r, s, pollId, q.id, <<q.id, 1>>), p, s)

\* the second question is open and a roster student has not answered it yet,
\* so ids of the first question are stale
C13_Witness ==
    \E p \in PollIds :
        /\ IsActive(Cur(p))
        /\ Cur(p).id = 2
        /\ \E s \in polls[p].students : s \notin Cur(p).answeredBy
\* question ids grow with time, so most-recent-first is strictly decreasing ids
MostRecentFirst(past) ==
    \A i \in 1..Len(past), j \in 1..Len(past) :
        i < j => past[i].questionId > past[j].questionId

\* what one step may do to the pastQuestions of poll p
HistoryStep(p) ==
    LET old == polls[p].pastQuestions
        new == polls'[p].pastQuestions
        cleared == Cur(p) # NoQuestion /\ polls'[p].currentQuestion = NoQuestion
    IN  IF new = old THEN ~cleared
        ELSE /\ cleared
             /\ Len(new) = Len(old) + 1
             /\ Tail(new) = old
             /\ Head(new).questionId = Cur(p).id
             /\ Head(new).reason \in {"timeout", "all_answered", "teacher_end"}

\* C14: pastQuestions changes only when the poll's current question is
\* finished, and then by exactly one new entry for that question at the
\* front, with currentQuestion cleared in the same step; the older entries
\* stay as they were, and the entries are ordered most recent first.
C14_HistoryPrependOnly ==
    /\ [](\A p \in PollIds : MostRecentFirst(polls[p].pastQuestions))
    /\ [][\A p \in PollIds : HistoryStep(p)]_vars

\* a poll has recorded two questions
C14_Witness ==
    \E p \in PollIds : Len(polls[p].pastQuestions) = 2
\* every questionFinished message in r.out carries the reason (and a
\* finishedAt stamp) of the entry that the same finish put at the front of
\* pastQuestions
FinishedCarryReason(r) ==
    \A i \in 1..Len(r.out) :
        r.out[i].type = "questionFinished" =>
            /\ "reason" \in DOMAIN r.out[i].body
            /\ "finishedAt" \in DOMAIN r.out[i].body
            /\ r.out[i].body.reason = Head(r.polls[r.out[i].id].pastQuestions).reason
            /\ r.out[i].body.reason \in {"timeout", "all_answered", "teacher_end"}

\* C15 (as claimed): whichever handler finishes a question (the timer
\* callback, teacher:endQuestion, the last student:submit), the
\* questionFinished it broadcasts carries reason and finishedAt as recorded
\* in the new pastQuestions entry.
C15_FinishedBroadcastHasReason ==
    /\ \A t \in timers : FinishedCarryReason(OnTimeout(St, t))
    /\ \A s \in sockets, pollId \in PollIdInputs :
          /\ FinishedCarryReason(OnEndQuestion(St, s, pollId))
          /\ \A questionId \in QuestionIdInputs, optionId \in OptionIdInputs :
                FinishedCarryReason(OnSubmit(St, s, pollId, questionId, optionId))

\* the state with the option counts of poll p's current question hidden
CountsHidden(st, p) ==
    [st EXCEPT !.polls[p].currentQuestion.options = [i \in DOMAIN @ |-> 0]]

\* the teacher:ready and student:ready messages among r.out
Snapshots(r) ==
    SelectSeq(r.out, LAMBDA m : m.type \in {"teacher:ready", "student:ready"})

\* C16 (as claimed): the snapshots sent by teacher:init (to the teacher and
\* to each attached waiting student) and by student:init for a poll whose
\* question is active do not depend on that question's option counts: they
\* are the same as if every count were still zero.
C16_SnapshotHidesCounts ==
    \A s \in sockets, pollId \in PollIdInputs :
        /\ LET p == ResolvePoll(St, pollId)
           IN  (p # Null /\ IsActive(Cur(p))) =>
                   Snapshots(OnStudentInit(St, s, pollId))
                       = Snapshots(OnStudentInit(CountsHidden(St, p), s, pollId))
        /\ (HasPoll(St, pollId) /\ IsActive(Cur(pollId))) =>
               Snapshots(OnTeacherInit(St, s, pollId))
                   = Snapshots(OnTeacherInit(CountsHidden(St, pollId), s, pollId))
Range(seq) == {seq[i] : i \in 1..Len(seq)}

BoundPolls == {p \in PollIds : polls[p].teacherSocketId # Null}

\* the poll a student:init with this pollId is to attach to, Null for none
Target(pollId) ==
    IF pollId \in PollIds THEN pollId
    ELSE IF activePollId # Null THEN activePollId
    ELSE IF BoundPolls # {} THEN CHOOSE p \in BoundPolls : \A q \in BoundPolls : q <= p
    ELSE Null

\* C17: student:init puts the student on the roster of the requested poll if
\* it exists, else of the active poll, else of the last created poll that has
\* a teacher, and touches no other roster nor the waiting queue; only when
\* none of these resolves is the student queued and sent student:waiting.
C17_StudentInitResolution ==
    \A s \in sockets, pollId \in DirPollIdInputs :
        LET t == Target(pollId)
            r == OnStudentInit(St, s, pollId)
        IN  IF t = Null
            THEN /\ r.polls = polls
                 /\ s \in Range(r.waitingStudents)
                 /\ r.out = <<ToSocket("student:waiting", s, Null)>>
            ELSE /\ r.polls = [polls EXCEPT ![t].students = @ \cup {s}]
                 /\ r.waitingStudents = waitingStudents
                 /\ \A i \in 1..Len(r.out) : r.out[i].type # "student:waiting"
                 /\ \E i \in 1..Len(r.out) :
                       r.out[i] = ToSocket("student:ready", s, ReadyBody(r.polls[t]))

\* no active poll, two polls with teachers, and a student on the later one
C17_Witness ==
    /\ activePollId = Null
    /\ Cardinality(BoundPolls) = 2
    /\ \E p \in BoundPolls :
          /\ \A q \in BoundPolls : q <= p
          /\ polls[p].students # {}
          /\ \A q \in BoundPolls \ {p} : polls[q].students = {}

\* C18: while a student is in the waiting queue, no poll has a teacher.
C18_NoWaitingWhileTeacherBound ==
    waitingStudents # <<>> => BoundPolls = {}

\* a student waits although polls exist, one of which had students before
C18_Witness ==
    /\ waitingStudents # <<>>
    /\ \E p \in PollIds : polls[p].students # {}

\* C19 (as claimed): no socket is in the waiting queue and on a roster.
C19_WaitingNotOnRoster ==
    \A w \in Range(waitingStudents), p \in PollIds : w \notin polls[p].students

\* C20: teacher:init leaves the waiting queue empty; every queued socket
\* that is live is then on the roster of the teacher's poll and was sent
\* student:ready; a queued socket that is not live is on no roster it was not
\* on before.  The handler is also run with part of the queue taken as no
\* longer live (live ranges over the subsets of the sockets).
C20_TeacherInitDrainsQueue ==
    \A s \in sockets, pollId \in DirPollIdInputs, live \in SUBSET sockets :
        s \in live =>
            LET st == [St EXCEPT !.sockets = live]
                r == OnTeacherInit(st, s, pollId)
                p == r.activePollId
            IN  /\ r.waitingStudents = <<>>
                /\ \A w \in Range(waitingStudents) :
                      IF w \in live
                      THEN /\ w \in r.polls[p].students
                           /\ \E i \in 1..Len(r.out) :
                                 /\ r.out[i].type = "student:ready"
                                 /\ r.out[i].to = "socket" /\ r.out[i].id = w
                      ELSE \A q \in 1..Len(r.polls) :
                              w \in r.polls[q].students =>
                                  q \in PollIds /\ w \in polls[q].students

\* two students wait and a third socket is there to attach as teacher
C20_Witness ==
    /\ Len(waitingStudents) = 2
    /\ \E s \in sockets : s \notin Range(waitingStudents)
\* st with nothing emitted yet: the state the next handler starts from
Settled(st) == [st EXCEPT !.out = <<>>]

\* from st, socket s is refused every teacher operation on poll p
Refused(st, s, p) ==
    /\ \A options \in OptionInputs, durationSec \in DurationInputs :
          OnAskQuestion(st, s, p, options, durationSec) = Error(st, s, "Not authorized")
    /\ OnEndQuestion(st, s, p) = st
    /\ \A studentId \in Sockets : OnRemoveStudent(st, s, p, studentId) = st

\* C21: teacher:init by c on a poll bound to another teacher c0 binds c and
\* makes the poll the active one; from then on askQuestion, endQuestion and
\* removeStudent from c0 on that poll are refused, and a disconnect of c0
\* leaves the binding of c and the active pointer as they are.  In every
\* state, moreover, whoever is not the bound teacher of a poll is refused.
C21_TakeoverReplacesTeacher ==
    /\ \A c \in sockets, p \in PollIds :
          LET c0 == polls[p].teacherSocketId
              r == Settled(OnTeacherInit(St, c, p))
              d == OnDisconnect(r, c0)
          IN  (c0 # Null /\ c0 # c) =>
                  /\ r.polls[p].teacherSocketId = c
                  /\ r.activePollId = p
                  /\ Refused(r, c0, p)
                  /\ d.polls[p].teacherSocketId = c
                  /\ d.activePollId = p
    /\ \A s \in sockets, p \in PollIds :
          polls[p].teacherSocketId # s => Refused(St, s, p)

\* both teachers are connected, and the second holds a poll with students, an
\* open question and a finished one
C21_Witness ==
    /\ CoTeacherSockets \subseteq sockets
    /\ \E p \in PollIds :
          /\ polls[p].teacherSocketId = 2
          /\ activePollId = p
          /\ IsActive(Cur(p))
          /\ polls[p].students # {}
          /\ polls[p].pastQuestions # <<>>

C23_EveryQuestionRecordedOnce ==
    \A q \in 1..nextQuestion :
        IF \E p \in PollIds : Cur(p) # NoQuestion /\ Cur(p).id = q
        THEN Entries(St, q) = {} /\ finishedSent[q] = 0
        ELSE Cardinality(Entries(St, q)) = 1 /\ finishedSent[q] = 1

\* C24 (as claimed): a student:submit from a connection that is not on a
\* poll's roster, whatever pollId, questionId and optionId it carries, leaves
\* that poll as it was.
C24_SubmitNeedsRoster ==
    \A s \in sockets, pollId \in PollIdInputs, questionId \in QuestionIdInputs,
       optionId \in OptionIdInputs, p \in PollIds :
        s \notin polls[p].students =>
            OnSubmit(St, s, pollId, questionId, optionId).polls[p] = polls[p]

\* C25 (as claimed): when a student:submit finishes a question with reason
\* all_answered, every connection on the poll's roster has answered it, the
\* submitter included.
C25_AllAnsweredMeansAll ==
    \A s \in sockets, pollId \in SubmitPollIdInputs, questionId \in QuestionIdInputs,
       optionId \in OptionIdInputs, p \in PollIds :
        FinishedBy(St, OnSubmit(St, s, pollId, questionId, optionId), p, Cur(p),
                   "all_answered")
            => polls[p].students \subseteq (Cur(p).answeredBy \cup {s})
\* C26 (as claimed): no connection is on the roster of two polls.
C26_OneRosterPerConnection ==
    \A s \in Sockets, p1 \in PollIds, p2 \in PollIds :
        (s \in polls[p1].students /\ s \in polls[p2].students) => p1 = p2

\* C27: activePollId, when set, names a poll in `polls` whose teacherSocketId
\* is present and is a live connection.
C27_ActivePointerHasLiveTeacher ==
    activePollId # Null =>
        /\ activePollId \in PollIds
        /\ polls[activePollId].teacherSocketId # Null
        /\ polls[activePollId].teacherSocketId \in sockets

\* the pointer is set after a teacher of another poll has disconnected
C27_Witness ==
    /\ activePollId # Null
    /\ nextSocket > Cardinality(sockets)
    /\ \E p \in PollIds \ {activePollId} :
          polls[p].teacherSocketId = Null /\ polls[p].students # {}

RECURSIVE SumOf(_)
SumOf(counts) == IF counts = <<>> THEN 0 ELSE Head(counts) + SumOf(Tail(counts))

\* C28: the option counts of every question, current or in pastQuestions,
\* add up to its totalAnswers.
C28_CountsAddUp ==
    \A p \in PollIds :
        /\ Cur(p) # NoQuestion => SumOf(Cur(p).options) = Cur(p).totalAnswers
        /\ \A i \in 1..Len(polls[p].pastQuestions) :
              SumOf(polls[p].pastQuestions[i].options)
                  = polls[p].pastQuestions[i].totalAnswers

\* a finished question with two answers and an open one with an answer
C28_Witness ==
    \E p \in PollIds :
        /\ Cur(p) # NoQuestion /\ Cur(p).totalAnswers = 1
        /\ \E i \in 1..Len(polls[p].pastQuestions) :
              polls[p].pastQuestions[i].totalAnswers = 2
====
